---- MODULE Spec2Model ----
(***************************************************************************)
(* Model of the Ai-Chatbot streaming pipeline:                             *)
(*   - the server generator generate_chat_responses (server/app.py, as     *)
(*     listed in src/client/src/components/MessageArea.tsx), driving the   *)
(*     LangGraph nodes model / tools_router / tool_node and yielding the   *)
(*     SSE lines "data: <json>";                                           *)
(*   - the client handler handleSubmit with its EventSource callbacks      *)
(*     onmessage / onerror (client/src/app/page.tsx, as listed in          *)
(*     src/client/frontend.md);                                            *)
(*   - the MessageArea render rule for a message body.                     *)
(* Text is a sequence of one-character tokens: "a" and "n" are ordinary    *)
(* letters, SQ is ', DQ is ", BS is \ and LF is a line break.              *)
(***************************************************************************)
EXTENDS Naturals, Sequences, FiniteSets, TLC

\* ------------------------------------------------------------------ bounds
MaxTurns == 2
MaxFrags == 2
MaxRounds == 1
MaxEvents == 5
MaxLen == 2

\* ------------------------------------------------------------ text values
Alphabet == {"a", "n", "SQ", "DQ", "BS", "LF"}

RECURSIVE Texts(_)
Texts(n) ==
  IF n = 0 THEN {<<>>}
  ELSE LET shorter == Texts(n - 1)
       IN  shorter \cup {Append(s, c) : s \in {x \in shorter : Len(x) = n - 1}, c \in Alphabet}

RECURSIVE Concat(_)
Concat(ss) == IF ss = <<>> THEN <<>> ELSE Head(ss) \o Concat(Tail(ss))

\* ------------------------------------------------- server-side escaping
\* chunk_content.replace("'", "\\'").replace("\n", "\\n")
EscapeContentChar(c) ==
  CASE c = "SQ" -> <<"BS", "SQ">>
    [] c = "LF" -> <<"BS", "n">>
    [] OTHER    -> <<c>>

\* search_query.replace('"', '\\"').replace("'", "\\'").replace("\n", "\\n")
EscapeQueryChar(c) ==
  CASE c = "DQ" -> <<"BS", "DQ">>
    [] c = "SQ" -> <<"BS", "SQ">>
    [] c = "LF" -> <<"BS", "n">>
    [] OTHER    -> <<c>>

RECURSIVE EscapeContent(_)
EscapeContent(s) ==
  IF s = <<>> THEN <<>> ELSE EscapeContentChar(Head(s)) \o EscapeContent(Tail(s))

RECURSIVE EscapeQuery(_)
EscapeQuery(s) ==
  IF s = <<>> THEN <<>> ELSE EscapeQueryChar(Head(s)) \o EscapeQuery(Tail(s))

\* json.dumps of one string: quote, backslash and line break are escaped.
JsonDumpsChar(c) ==
  CASE c = "DQ" -> <<"BS", "DQ">>
    [] c = "BS" -> <<"BS", "BS">>
    [] c = "LF" -> <<"BS", "n">>
    [] OTHER    -> <<c>>

RECURSIVE JsonDumpsString(_)
JsonDumpsString(s) ==
  IF s = <<>> THEN <<>> ELSE JsonDumpsChar(Head(s)) \o JsonDumpsString(Tail(s))

\* ------------------------------------------------- client-side JSON.parse
\* JSON.parse of a string literal whose body (the text between the quotes
\* the server's template writes) is b.  A raw DQ ends the literal early and
\* what follows it is then no JSON; a raw LF is a control character; BS must
\* be followed by DQ, BS or n (the escapes this alphabet can spell).
ParseFail == [ok |-> FALSE, val |-> <<>>]

RECURSIVE JsonParseString(_)
JsonParseString(b) ==
  IF b = <<>> THEN [ok |-> TRUE, val |-> <<>>]
  ELSE
    LET c == Head(b) IN
    IF c = "DQ" \/ c = "LF" THEN ParseFail
    ELSE IF c = "BS" THEN
      IF Len(b) < 2 THEN ParseFail
      ELSE
        LET e == b[2]
            rest == JsonParseString(SubSeq(b, 3, Len(b)))
            ch == CASE e = "DQ" -> "DQ" [] e = "BS" -> "BS" [] e = "n" -> "LF" [] OTHER -> "?"
        IN  IF e \notin {"DQ", "BS", "n"} \/ ~rest.ok THEN ParseFail
            ELSE [ok |-> TRUE, val |-> <<ch>> \o rest.val]
    ELSE
      LET rest == JsonParseString(Tail(b))
      IN  IF ~rest.ok THEN ParseFail ELSE [ok |-> TRUE, val |-> <<c>> \o rest.val]

\* JSON.parse of a text that is to be a whole JSON value, over the tokens
\* LB ("["), RB ("]"), CM (","), DQ, BS and the digit 1: an array of strings
\* and numbers gives a list; a string literal or a number is parsed as well
\* and gives a value that is no list; any other text throws.  A value that is
\* no list is kept apart from every list of urls by its first token.
ValueFail == [ok |-> FALSE, isList |-> FALSE, val |-> <<>>]

NonList(kind, text) == << <<kind>> \o text >>

\* Variant of JsonParseValue: a text that is no JSON is taken as a plain
\* string instead of throwing.
JsonParseValueLenient(s) == [ok |-> TRUE, isList |-> FALSE, val |-> NonList("#string", s)]

\* The position of the quote that closes a string literal opened before i.
RECURSIVE ClosingQuote(_, _)
ClosingQuote(s, i) ==
  IF i > Len(s) THEN 0
  ELSE IF s[i] = "BS" THEN ClosingQuote(s, i + 2)
  ELSE IF s[i] = "DQ" THEN i
  ELSE ClosingQuote(s, i + 1)

\* The elements of an array, after "[" or after ",".
RECURSIVE JsonParseElements(_)
JsonParseElements(s) ==
  IF s = <<>> THEN ParseFail
  ELSE
    LET isNumber == Head(s) = "1"
        j == IF isNumber THEN 1 ELSE IF Head(s) = "DQ" THEN ClosingQuote(s, 2) ELSE 0
    IN
    IF j = 0 THEN ParseFail
    ELSE
      LET str == IF isNumber THEN [ok |-> TRUE, val |-> <<"#number", "1">>]
                 ELSE JsonParseString(SubSeq(s, 2, j - 1))
          after == SubSeq(s, j + 1, Len(s))
      IN  IF ~str.ok THEN ParseFail
          ELSE IF after = <<>> THEN [ok |-> TRUE, val |-> <<str.val>>]
          ELSE IF Head(after) # "CM" THEN ParseFail
          ELSE LET rest == JsonParseElements(Tail(after))
               IN  IF ~rest.ok THEN ParseFail
                   ELSE [ok |-> TRUE, val |-> <<str.val>> \o rest.val]

JsonParseValue(s) ==
  IF s = <<"1">> THEN [ok |-> TRUE, isList |-> FALSE, val |-> NonList("#number", s)]
  ELSE IF Len(s) >= 2 /\ s[1] = "DQ" THEN
    LET str == JsonParseString(SubSeq(s, 2, Len(s) - 1))
    IN  IF ClosingQuote(s, 2) = Len(s) /\ str.ok
        THEN [ok |-> TRUE, isList |-> FALSE, val |-> NonList("#string", str.val)]
        ELSE ValueFail
  ELSE IF Len(s) >= 2 /\ s[1] = "LB" /\ s[Len(s)] = "RB" THEN
    IF Len(s) = 2 THEN [ok |-> TRUE, isList |-> TRUE, val |-> <<>>]
    ELSE LET es == JsonParseElements(SubSeq(s, 2, Len(s) - 1))
         IN  IF es.ok THEN [ok |-> TRUE, isList |-> TRUE, val |-> es.val] ELSE ValueFail
  ELSE ValueFail

\* ------------------------------------------------------------ input sets
Turns == 1..MaxTurns
ThreadIds == 1..MaxTurns
NoThread == 0

SearchTool == "tavily_search_results_json"
OtherTool == "other_tool"

UserTexts == {<<"a">>}
Frags == {<<>>, <<"a">>, <<"SQ">>}
Queries == {<<"a">>, <<"SQ">>}

U1 == <<"a">>
U2 == <<"DQ">>

\* What the model can put in tool_calls of one response (ids are added when
\* the response is built).
ToolCallLists ==
  { <<>> }
  \cup { <<[name |-> SearchTool, query |-> q]>> : q \in Queries }
  \cup { <<[name |-> SearchTool, query |-> <<"a">>], [name |-> SearchTool, query |-> <<"n">>]>> }
  \cup { <<[name |-> OtherTool, query |-> <<"a">>]>> }

\* What search_tool.ainvoke can return: a list of result items (an item may
\* lack the "url" key), or a value that is no list.
SearchOutputs ==
  { [isList |-> TRUE,
     items |-> << [hasUrl |-> TRUE, url |-> U1], [hasUrl |-> FALSE, url |-> <<>>],
                  [hasUrl |-> TRUE, url |-> U2] >>],
    [isList |-> FALSE, items |-> <<>>] }

\* ------------------------------------------------------------------ state
VARIABLES
  memory,        \* MemorySaver: thread_id -> checkpointed State["messages"]
  nextId,        \* number of uuid4() values drawn so far
  nextCall,      \* number of tool call ids the model has produced so far
  sv,            \* per Turn: the run of generate_chat_responses
  wire,          \* per Turn: the SSE events yielded so far, in order
  messages,      \* client: the messages state of Home
  checkpointId,  \* client: the checkpointId state of Home (NoThread = null)
  cl,            \* per Turn: the closure of one handleSubmit call
  nTurns,        \* number of handleSubmit calls so far
  codec          \* one text taken through escaping and JSON.parse

vars == <<memory, nextId, nextCall, sv, wire, messages, checkpointId, cl, nTurns, codec>>
serverVars == <<memory, nextId, nextCall, sv, wire>>
clientVars == <<messages, checkpointId, cl, nTurns>>

\* ------------------------------------------------------ thread Messages
HumanMessage(text) ==
  [role |-> "user", content |-> text, toolCalls |-> <<>>, toolCallId |-> 0]

AIMessage(text, calls) ==
  [role |-> "assistant", content |-> text, toolCalls |-> calls, toolCallId |-> 0]

\* Variant of ToolMessage: the tool message does not carry the call's id.
ToolMessageWithoutId(out, id) ==
  [role |-> "tool",
   content |-> IF out.isList THEN <<"results">> ELSE <<"repr">>,
   toolCalls |-> <<>>, toolCallId |-> 0]

\* ToolMessage(content=str(search_results), tool_call_id=tool_id, name=tool_name)
ToolMessage(out, id) ==
  [role |-> "tool",
   content |-> IF out.isList THEN <<"results">> ELSE <<"repr">>,
   toolCalls |-> <<>>, toolCallId |-> id]

\* ------------------------------------------------------------ SSE events
\* urls holds the elements of a "urls" array; urlsIsString and urlsBody stand
\* for a "urls" member that is a string literal with body urlsBody.
NoEvent ==
  [type |-> "none", body |-> <<>>, raw |-> <<>>, urls |-> <<>>, cp |-> 0,
   urlsIsString |-> FALSE, urlsBody |-> <<>>]

\* f"data: {{\"type\": \"checkpoint\", \"checkpoint_id\": \"{new_checkpoint_id}\"}}\n\n"
CheckpointEvent(id) == [NoEvent EXCEPT !.type = "checkpoint", !.cp = id]

\* f"data: {{\"type\": \"content\", \"content\": \"{safe_content}\"}}\n\n"
\* (raw keeps the text before escaping; it is not on the wire)
ContentEvent(text) ==
  [NoEvent EXCEPT !.type = "content", !.body = EscapeContent(text), !.raw = text]

\* f"data: {{\"type\": \"search_start\", \"query\": \"{safe_query}\"}}\n\n"
SearchStartEvent(q) ==
  [NoEvent EXCEPT !.type = "search_start", !.body = EscapeQuery(q), !.raw = q]

\* Variant of ExtractUrls: an item without "url" gives an empty entry.
ExtractUrlsAll(items) == [i \in 1..Len(items) |-> items[i].url]

RECURSIVE ExtractUrls(_)
ExtractUrls(items) ==
  IF items = <<>> THEN <<>>
  ELSE (IF Head(items).hasUrl THEN <<Head(items).url>> ELSE <<>>) \o ExtractUrls(Tail(items))

\* urls_json = json.dumps(urls)
JsonDumpsList(urls) == [i \in 1..Len(urls) |-> JsonDumpsString(urls[i])]

\* f"data: {{\"type\": \"search_results\", \"urls\": {urls_json}}}\n\n"
SearchResultsEvent(items) ==
  [NoEvent EXCEPT !.type = "search_results", !.urls = JsonDumpsList(ExtractUrls(items))]

\* f"data: {{\"type\": \"end\"}}\n\n"
EndEvent == [NoEvent EXCEPT !.type = "end"]

Emit(t, ev) == [wire EXCEPT ![t] = Append(@, ev)]

\* ------------------------------------------------------------- counters
RECURSIVE SumOver(_, _)
SumOver(f, S) ==
  IF S = {} THEN 0 ELSE LET x == CHOOSE y \in S : TRUE IN f[x] + SumOver(f, S \ {x})

FragsUsed == SumOver([t \in Turns |-> sv[t].nfrags], Turns)
RoundsUsed == SumOver([t \in Turns |-> sv[t].rounds], Turns)

\* ----------------------------------------------------------------- server
SvIdle ==
  [pc |-> "idle", text |-> <<>>, reqCp |-> NoThread, tid |-> NoThread, isNew |-> FALSE,
   local |-> <<>>, acc |-> <<>>, queue |-> <<>>, toolMsgs |-> <<>>,
   nfrags |-> 0, rounds |-> 0]

\* Variant of IsNewConversation: every request is taken for a new conversation.
IsNewConversationAlways(checkpoint_id) == TRUE

\* is_new_conversation = checkpoint_id is None
IsNewConversation(checkpoint_id) == checkpoint_id = NoThread

\* generate_chat_responses up to its first suspension: decide whether the
\* conversation is new, draw the uuid, build the config, yield the checkpoint.
ServerStart(t) ==
  /\ sv[t].pc = "requested"
  /\ LET is_new_conversation == IsNewConversation(sv[t].reqCp)
         new_checkpoint_id == nextId + 1
     IN  /\ sv' = [sv EXCEPT ![t].pc = "started",
                             ![t].isNew = is_new_conversation,
                             ![t].tid = IF is_new_conversation THEN new_checkpoint_id
                                        ELSE sv[t].reqCp]
         /\ nextId' = IF is_new_conversation THEN new_checkpoint_id ELSE nextId
         /\ wire' = IF is_new_conversation THEN Emit(t, CheckpointEvent(new_checkpoint_id))
                    ELSE wire
  /\ UNCHANGED <<memory, nextCall, clientVars, codec>>

\* Variant of GraphInput: the run starts from an empty state instead of the
\* thread's checkpoint.
GraphInputFresh(t) ==
  /\ sv[t].pc = "started"
  /\ LET state == <<HumanMessage(sv[t].text)>>
     IN  /\ sv' = [sv EXCEPT ![t].pc = "ModelPending", ![t].local = state, ![t].acc = <<>>]
         /\ memory' = [memory EXCEPT ![sv[t].tid] = state]
  /\ UNCHANGED <<nextId, nextCall, wire, clientVars, codec>>

\* Variant of GraphInput: the checkpointer keeps one message list for all
\* thread ids.
GraphInputGlobal(t) ==
  /\ sv[t].pc = "started"
  /\ LET state == memory[sv[t].tid] \o <<HumanMessage(sv[t].text)>>
     IN  /\ sv' = [sv EXCEPT ![t].pc = "ModelPending", ![t].local = state, ![t].acc = <<>>]
         /\ memory' = [id \in DOMAIN memory |-> state]
  /\ UNCHANGED <<nextId, nextCall, wire, clientVars, codec>>

\* graph.astream_events({"messages": [HumanMessage(content=message)]}, config):
\* the run starts from the thread's checkpoint, add_messages appends the input,
\* and the checkpointer stores the outcome under thread_id.
GraphInput(t) ==
  /\ sv[t].pc = "started"
  /\ LET state == memory[sv[t].tid] \o <<HumanMessage(sv[t].text)>>
     IN  /\ sv' = [sv EXCEPT ![t].pc = "ModelPending", ![t].local = state, ![t].acc = <<>>]
         /\ memory' = [memory EXCEPT ![sv[t].tid] = state]
  /\ UNCHANGED <<nextId, nextCall, wire, clientVars, codec>>

\* Variant of ModelStream: a chunk without text is not forwarded.
ModelStreamSkipEmpty(t, f) ==
  /\ sv[t].pc = "ModelPending"
  /\ FragsUsed < MaxFrags
  /\ sv' = [sv EXCEPT ![t].acc = @ \o f, ![t].nfrags = @ + 1]
  /\ wire' = IF f = <<>> THEN wire ELSE Emit(t, ContentEvent(f))
  /\ UNCHANGED <<memory, nextId, nextCall, clientVars, codec>>

\* on_chat_model_stream: one chunk of the model's answer is yielded as content.
ModelStream(t, f) ==
  /\ sv[t].pc = "ModelPending"
  /\ FragsUsed < MaxFrags
  /\ sv' = [sv EXCEPT ![t].acc = @ \o f, ![t].nfrags = @ + 1]
  /\ wire' = Emit(t, ContentEvent(f))
  /\ UNCHANGED <<memory, nextId, nextCall, clientVars, codec>>

RECURSIVE WithIds(_, _)
WithIds(calls, from) ==
  IF calls = <<>> THEN <<>>
  ELSE <<[id |-> from + 1, name |-> Head(calls).name, query |-> Head(calls).query]>>
       \o WithIds(Tail(calls), from + 1)

\* Variant of SearchCalls: no call is taken for a search call.
SearchCallsNone(calls) == <<>>

SearchCalls(calls) == SelectSeq(calls, LAMBDA c : c.name = SearchTool)

\* on_chat_model_end: model() returns {"messages": [result]}, which add_messages
\* appends; the generator yields search_start for the first search call.
ModelEnd(t, cs) ==
  /\ sv[t].pc = "ModelPending"
  /\ cs # <<>> => RoundsUsed < MaxRounds
  /\ LET tool_calls == WithIds(cs, nextCall)
         result == AIMessage(sv[t].acc, tool_calls)
         state == sv[t].local \o <<result>>
         search_calls == SearchCalls(tool_calls)
     IN  /\ sv' = [sv EXCEPT ![t].pc = "Routing", ![t].local = state, ![t].acc = <<>>,
                             ![t].rounds = IF cs # <<>> THEN @ + 1 ELSE @]
         /\ memory' = [memory EXCEPT ![sv[t].tid] = state]
         /\ nextCall' = nextCall + Len(cs)
         /\ wire' = IF search_calls # <<>> THEN Emit(t, SearchStartEvent(search_calls[1].query))
                    ELSE wire
  /\ UNCHANGED <<nextId, clientVars, codec>>

\* Variant of tools_router: the run ends after every model response.
tools_routerAlwaysEnd(t) ==
  /\ sv[t].pc = "Routing"
  /\ sv' = [sv EXCEPT ![t].pc = "Done"]
  /\ UNCHANGED <<memory, nextId, nextCall, wire, clientVars, codec>>

\* tools_router: tool_node when the last message carries tool calls, else END.
tools_router(t) ==
  /\ sv[t].pc = "Routing"
  /\ LET last_message == sv[t].local[Len(sv[t].local)]
     IN  sv' = IF Len(last_message.toolCalls) > 0
               THEN [sv EXCEPT ![t].pc = "ToolPending", ![t].queue = last_message.toolCalls,
                               ![t].toolMsgs = <<>>]
               ELSE [sv EXCEPT ![t].pc = "Done"]
  /\ UNCHANGED <<memory, nextId, nextCall, wire, clientVars, codec>>

\* tool_node, one iteration of "for tool_call in tool_calls": a search call is
\* executed and answered by a ToolMessage; on_tool_end yields search_results
\* when the output is a list.  A call of another name is passed over.
ToolCallStep(t, out) ==
  /\ sv[t].pc = "ToolPending"
  /\ sv[t].queue # <<>>
  /\ LET tool_call == Head(sv[t].queue)
     IN  IF tool_call.name = SearchTool
         THEN /\ sv' = [sv EXCEPT ![t].queue = Tail(@),
                                  ![t].toolMsgs = Append(@, ToolMessage(out, tool_call.id))]
              /\ wire' = IF out.isList THEN Emit(t, SearchResultsEvent(out.items)) ELSE wire
         ELSE /\ sv' = [sv EXCEPT ![t].queue = Tail(@)]
              /\ wire' = wire
  /\ UNCHANGED <<memory, nextId, nextCall, clientVars, codec>>

\* tool_node returns {"messages": tool_messages}; the edge leads back to model.
ToolNodeReturn(t) ==
  /\ sv[t].pc = "ToolPending"
  /\ sv[t].queue = <<>>
  /\ LET state == sv[t].local \o sv[t].toolMsgs
     IN  /\ sv' = [sv EXCEPT ![t].pc = "ModelPending", ![t].local = state,
                             ![t].toolMsgs = <<>>, ![t].acc = <<>>]
         /\ memory' = [memory EXCEPT ![sv[t].tid] = state]
  /\ UNCHANGED <<nextId, nextCall, wire, clientVars, codec>>

\* llm_with_tools.ainvoke raises: nothing in generate_chat_responses catches,
\* the generator ends with the exception and the response stream breaks off.
ModelFails(t) ==
  /\ sv[t].pc = "ModelPending"
  /\ sv' = [sv EXCEPT ![t].pc = "aborted"]
  /\ UNCHANGED <<memory, nextId, nextCall, wire, clientVars, codec>>

\* search_tool.ainvoke raises inside tool_node: same path.
SearchFails(t) ==
  /\ sv[t].pc = "ToolPending"
  /\ sv[t].queue # <<>>
  /\ Head(sv[t].queue).name = SearchTool
  /\ sv' = [sv EXCEPT ![t].pc = "aborted"]
  /\ UNCHANGED <<memory, nextId, nextCall, wire, clientVars, codec>>

\* Variant of SendEnd: the generator returns without the end event.
SendEndSilent(t) ==
  /\ sv[t].pc = "Done"
  /\ sv' = [sv EXCEPT ![t].pc = "closed"]
  /\ UNCHANGED <<memory, nextId, nextCall, wire, clientVars, codec>>

\* The event loop is exhausted: yield the end event; the generator returns.
SendEnd(t) ==
  /\ sv[t].pc = "Done"
  /\ sv' = [sv EXCEPT ![t].pc = "closed"]
  /\ wire' = Emit(t, EndEvent)
  /\ UNCHANGED <<memory, nextId, nextCall, clientVars, codec>>

\* ----------------------------------------------------------------- client
WelcomeText == <<"Hi there, how can I help you?">>
StreamErrorText == <<"Sorry, there was an error processing your request.">>
SetupErrorText == <<"Sorry, there was an error connecting to the server.">>
Undefined == <<"undefined">>

\* searchData = null, and a message without searchInfo
NoSearch == [present |-> FALSE, stages |-> <<>>, query |-> <<>>, urls |-> <<>>,
             error |-> Undefined]

\* searchInfo: { stages: [], query: "", urls: [] }
EmptySearchInfo == [NoSearch EXCEPT !.present = TRUE]

ClIdle ==
  [es |-> "none", aiResponseId |-> 0, streamedContent |-> <<>>, searchData |-> NoSearch,
   hasReceivedContent |-> FALSE, rd |-> 0,
   frags |-> <<>>, endSeen |-> FALSE, errored |-> FALSE]

RECURSIVE MaxId(_)
MaxId(msgs) ==
  IF msgs = <<>> THEN 0
  ELSE LET m == MaxId(Tail(msgs)) IN IF Head(msgs).id > m THEN Head(msgs).id ELSE m

\* messages.length > 0 ? Math.max(...messages.map(msg => msg.id)) + 1 : 1
NewMessageId(msgs) == IF Len(msgs) > 0 THEN MaxId(msgs) + 1 ELSE 1

UserMessage(id, text) ==
  [id |-> id, content |-> text, isUser |-> TRUE, isLoading |-> FALSE, searchInfo |-> NoSearch]

Placeholder(id) ==
  [id |-> id, content |-> <<>>, isUser |-> FALSE, isLoading |-> TRUE,
   searchInfo |-> EmptySearchInfo]

\* Variant of MapMessages: every assistant message takes the update, whatever
\* its id.
MapMessagesAll(msgs, id, upd) ==
  [i \in 1..Len(msgs) |->
     IF ~msgs[i].isUser
     THEN [f \in DOMAIN msgs[i] |-> IF f \in DOMAIN upd THEN upd[f] ELSE msgs[i][f]]
     ELSE msgs[i]]

\* Variant of MapMessages: the update replaces the message instead of being
\* merged into it; a field the update does not name falls back to the
\* placeholder's.
MapMessagesReplace(msgs, id, upd) ==
  [i \in 1..Len(msgs) |->
     IF msgs[i].id = id
     THEN [f \in DOMAIN msgs[i] |-> IF f \in DOMAIN upd THEN upd[f] ELSE Placeholder(id)[f]]
     ELSE msgs[i]]

\* setMessages(prev => prev.map(msg =>
\*   msg.id === aiResponseId ? { ...msg, ...upd } : msg))
MapMessages(msgs, id, upd) ==
  [i \in 1..Len(msgs) |->
     IF msgs[i].id = id
     THEN [f \in DOMAIN msgs[i] |-> IF f \in DOMAIN upd THEN upd[f] ELSE msgs[i][f]]
     ELSE msgs[i]]

\* handleSubmit, the EventSource being created: user message, placeholder,
\* url with the checkpoint id of the current state, new EventSource(url).
Submit(text) ==
  /\ nTurns < MaxTurns
  /\ LET t == nTurns + 1
         newMessageId == NewMessageId(messages)
         aiResponseId == newMessageId + 1
     IN  /\ messages' = messages \o <<UserMessage(newMessageId, text), Placeholder(aiResponseId)>>
         /\ cl' = [cl EXCEPT ![t] = [ClIdle EXCEPT !.es = "open", !.aiResponseId = aiResponseId]]
         /\ sv' = [sv EXCEPT ![t] = [SvIdle EXCEPT !.pc = "requested", !.text = text,
                                                 !.reqCp = checkpointId]]
         /\ nTurns' = t
  /\ UNCHANGED <<memory, nextId, nextCall, wire, checkpointId, codec>>

\* handleSubmit, new EventSource(url) throwing: the catch block appends a
\* message with id newMessageId + 1.
SubmitSetupFails(text) ==
  /\ nTurns < MaxTurns
  /\ LET t == nTurns + 1
         newMessageId == NewMessageId(messages)
         aiResponseId == newMessageId + 1
     IN  /\ messages' = messages
              \o <<UserMessage(newMessageId, text), Placeholder(aiResponseId),
                   [id |-> newMessageId + 1, content |-> SetupErrorText, isUser |-> FALSE,
                    isLoading |-> FALSE, searchInfo |-> NoSearch]>>
         /\ cl' = [cl EXCEPT ![t] = [ClIdle EXCEPT !.es = "failed", !.aiResponseId = aiResponseId]]
         /\ nTurns' = t
  /\ UNCHANGED <<serverVars, checkpointId, codec>>

\* Variant of ParseEvent: the text is taken as it stands on the line, without
\* the guard of JSON.parse.
ParseEventLenient(ev) ==
  [ok |-> TRUE, type |-> ev.type, text |-> ev.body, cp |-> ev.cp, urls |-> ev.urls,
   urlsIsString |-> ev.urlsIsString, urlsText |-> ev.urlsBody]

\* Variant of ParseEvent: a type the handlers do not name is taken for end.
ParseEventUnknownAsEnd(ev) ==
  LET p == JsonParseString(ev.body)
      us == [i \in 1..Len(ev.urls) |-> JsonParseString(ev.urls[i])]
      ut == JsonParseString(ev.urlsBody)
  IN  [ok |-> p.ok /\ ut.ok /\ \A i \in 1..Len(us) : us[i].ok,
       urlsIsString |-> ev.urlsIsString, urlsText |-> ut.val,
       type |-> IF ev.type \in {"checkpoint", "content", "search_start",
                                "search_results", "search_error", "end"}
                THEN ev.type ELSE "end",
       text |-> p.val, cp |-> ev.cp,
       urls |-> [i \in 1..Len(us) |-> us[i].val]]

\* const data = JSON.parse(event.data)
ParseEvent(ev) ==
  LET p == JsonParseString(ev.body)
      us == [i \in 1..Len(ev.urls) |-> JsonParseString(ev.urls[i])]
      ut == JsonParseString(ev.urlsBody)
  IN  [ok |-> p.ok /\ ut.ok /\ \A i \in 1..Len(us) : us[i].ok,
       urlsIsString |-> ev.urlsIsString, urlsText |-> ut.val,
       type |-> ev.type, text |-> p.val, cp |-> ev.cp,
       urls |-> [i \in 1..Len(us) |-> us[i].val]]

\* Variant of AppendContent: the fragment replaces the text instead of extending it.
AppendContentOverwrite(streamedContent, content) == content

\* streamedContent += data.content
AppendContent(streamedContent, content) == streamedContent \o content

\* stages: searchData ? [...searchData.stages, stage] : [stage]
AddStage(searchData, stage) ==
  IF searchData.present THEN Append(searchData.stages, stage) ELSE <<stage>>

\* search_start: { stages: ['searching'], query: data.query, urls: [] }
SearchStartInfo(searchData, query) ==
  [present |-> TRUE, stages |-> <<"searching">>, query |-> query, urls |-> <<>>,
   error |-> Undefined]

\* Variant of SearchResultsInfo: without an earlier stage record the stages
\* start with "searching", so that "reading" never comes first.
SearchResultsInfoOrdered(searchData, urls) ==
  [present |-> TRUE,
   stages |-> IF searchData.present THEN Append(searchData.stages, "reading")
              ELSE <<"searching", "reading">>,
   query |-> IF searchData.present THEN searchData.query ELSE <<>>,
   urls |-> urls, error |-> Undefined]

\* search_results: { stages: [..., 'reading'], query: searchData?.query || "", urls }
SearchResultsInfo(searchData, urls) ==
  [present |-> TRUE, stages |-> AddStage(searchData, "reading"),
   query |-> IF searchData.present THEN searchData.query ELSE <<>>,
   urls |-> urls, error |-> Undefined]

\* search_error: { stages: [..., 'error'], query, error: data.error, urls: [] }
SearchErrorInfo(searchData, error) ==
  [present |-> TRUE, stages |-> AddStage(searchData, "error"),
   query |-> IF searchData.present THEN searchData.query ELSE <<>>,
   urls |-> <<>>, error |-> error]

\* end: { ...searchData, stages: [...searchData.stages, 'writing'] }
FinalSearchInfo(searchData) == [searchData EXCEPT !.stages = Append(@, "writing")]

\* eventSource.onmessage of Turn t's stream, called with the event ev.
OnMessage(t, ev) ==
  /\ cl[t].es = "open"
  /\ LET c == cl[t]
         data == ParseEvent(ev)
         read == [c EXCEPT !.rd = @ + 1]
         id == c.aiResponseId
     IN
     IF ~data.ok THEN
       \* catch (error) { console.error(...) }
       /\ cl' = [cl EXCEPT ![t] = read]
       /\ UNCHANGED <<messages, checkpointId>>
     ELSE IF data.type = "checkpoint" THEN
       /\ checkpointId' = data.cp
       /\ cl' = [cl EXCEPT ![t] = read]
       /\ UNCHANGED messages
     ELSE IF data.type = "content" THEN
       LET streamed == AppendContent(c.streamedContent, data.text)
           upd == [content |-> streamed, isLoading |-> FALSE]
       IN  /\ cl' = [cl EXCEPT ![t] = [read EXCEPT !.streamedContent = streamed,
                                                  !.hasReceivedContent = TRUE,
                                                  !.frags = Append(@, data.text)]]
           /\ messages' = MapMessages(messages, id, upd)
           /\ UNCHANGED checkpointId
     ELSE IF data.type = "search_start" THEN
       LET newSearchInfo == SearchStartInfo(c.searchData, data.text)
           upd == [content |-> c.streamedContent,
                                   searchInfo |-> newSearchInfo, isLoading |-> FALSE]
       IN  /\ cl' = [cl EXCEPT ![t] = [read EXCEPT !.searchData = newSearchInfo]]
           /\ messages' = MapMessages(messages, id, upd)
           /\ UNCHANGED checkpointId
     ELSE IF data.type = "search_results" THEN
       \* typeof data.urls === 'string' ? JSON.parse(data.urls) : data.urls
       LET urls == IF data.urlsIsString THEN JsonParseValue(data.urlsText)
                   ELSE [ok |-> TRUE, isList |-> TRUE, val |-> data.urls]
           newSearchInfo == SearchResultsInfo(c.searchData, urls.val)
           upd == [content |-> c.streamedContent,
                                   searchInfo |-> newSearchInfo, isLoading |-> FALSE]
       IN  IF ~urls.ok THEN
             \* catch (err) { console.error("Error parsing search results:", err) }
             /\ cl' = [cl EXCEPT ![t] = read]
             /\ UNCHANGED <<messages, checkpointId>>
           ELSE
             /\ cl' = [cl EXCEPT ![t] = [read EXCEPT !.searchData = newSearchInfo]]
             /\ messages' = MapMessages(messages, id, upd)
             /\ UNCHANGED checkpointId
     ELSE IF data.type = "search_error" THEN
       LET newSearchInfo == SearchErrorInfo(c.searchData, data.text)
           upd == [content |-> c.streamedContent,
                                   searchInfo |-> newSearchInfo, isLoading |-> FALSE]
       IN  /\ cl' = [cl EXCEPT ![t] = [read EXCEPT !.searchData = newSearchInfo]]
           /\ messages' = MapMessages(messages, id, upd)
           /\ UNCHANGED checkpointId
     ELSE IF data.type = "end" THEN
       LET upd == [searchInfo |-> FinalSearchInfo(c.searchData),
                                   isLoading |-> FALSE]
       IN  /\ cl' = [cl EXCEPT ![t] = [read EXCEPT !.es = "closed", !.endSeen = TRUE]]
           /\ messages' = IF c.searchData.present THEN MapMessages(messages, id, upd)
                          ELSE messages
           /\ UNCHANGED checkpointId
     ELSE
       /\ cl' = [cl EXCEPT ![t] = read]
       /\ UNCHANGED <<messages, checkpointId>>
  /\ UNCHANGED <<serverVars, nTurns, codec>>

\* Variant of NothingStreamed: the test is inverted.
NothingStreamedInverted(streamedContent) == streamedContent # <<>>

\* if (!streamedContent)
NothingStreamed(streamedContent) == streamedContent = <<>>

\* Variant of OnError: the handler does not close the stream.
OnErrorKeepsOpen(t) ==
  /\ cl[t].es = "open"
  /\ LET c == cl[t]
         upd == [content |-> StreamErrorText, isLoading |-> FALSE]
     IN  /\ cl' = [cl EXCEPT ![t] = [c EXCEPT !.errored = TRUE]]
         /\ messages' = IF NothingStreamed(c.streamedContent)
                        THEN MapMessages(messages, c.aiResponseId, upd)
                        ELSE messages
  /\ UNCHANGED <<serverVars, checkpointId, nTurns, codec>>

\* eventSource.onerror: the connection of Turn t's stream fails.
OnError(t) ==
  /\ cl[t].es = "open"
  /\ LET c == cl[t]
         upd == [content |-> StreamErrorText, isLoading |-> FALSE]
     IN  /\ cl' = [cl EXCEPT ![t] = [c EXCEPT !.es = "closed", !.errored = TRUE]]
         /\ messages' = IF NothingStreamed(c.streamedContent)
                        THEN MapMessages(messages, c.aiResponseId, upd)
                        ELSE messages
  /\ UNCHANGED <<serverVars, checkpointId, nTurns, codec>>

\* ------------------------------------------------------------- rendering
\* <PremiumTypingAnimation />
TypingAnimation == <<"PremiumTypingAnimation">>

\* <span ...>Waiting for response...</span>
WaitingText == <<"Waiting for response...">>

\* Variant of RenderBody: the content is shown without a stand-in.
RenderBodyNoFallback(message) ==
  IF message.isLoading THEN TypingAnimation ELSE message.content

\* MessageArea, the body of one message:
\* message.isLoading ? <PremiumTypingAnimation /> : (message.content || fallback)
RenderBody(message) ==
  IF message.isLoading THEN TypingAnimation
  ELSE IF message.content # <<>> THEN message.content
  ELSE WaitingText

\* ------------------------------------------------------------ the system
CodecIdle == [pc |-> "idle", text |-> <<>>, event |-> NoEvent, data |-> ParseEvent(NoEvent)]

InitSystem ==
  /\ memory = [id \in ThreadIds |-> <<>>]
  /\ nextId = 0
  /\ nextCall = 0
  /\ sv = [t \in Turns |-> SvIdle]
  /\ wire = [t \in Turns |-> <<>>]
  /\ messages = << [id |-> 1, content |-> WelcomeText, isUser |-> FALSE,
                    isLoading |-> FALSE, searchInfo |-> NoSearch] >>
  /\ checkpointId = NoThread
  /\ cl = [t \in Turns |-> ClIdle]
  /\ nTurns = 0

Init ==
  /\ InitSystem
  /\ codec = CodecIdle

\* The stream delivers the next event of Turn t, in the order it was yielded.
Deliver(t) ==
  /\ cl[t].rd < Len(wire[t])
  /\ OnMessage(t, wire[t][cl[t].rd + 1])

\* One Turn, server and client: every response and failure the adapters can
\* produce, every delay of the stream, a connection failure at any moment.
FirstTurn == 1

SubmitFirst(text) == nTurns < FirstTurn /\ Submit(text)

NextPipeline ==
  \/ \E text \in UserTexts : SubmitFirst(text)
  \/ ServerStart(FirstTurn)
  \/ GraphInput(FirstTurn)
  \/ \E f \in Frags : ModelStream(FirstTurn, f)
  \/ \E cs \in ToolCallLists : ModelEnd(FirstTurn, cs)
  \/ tools_router(FirstTurn)
  \/ \E out \in SearchOutputs : ToolCallStep(FirstTurn, out)
  \/ ToolNodeReturn(FirstTurn)
  \/ ModelFails(FirstTurn)
  \/ SearchFails(FirstTurn)
  \/ SendEnd(FirstTurn)
  \/ Deliver(FirstTurn)
  \/ OnError(FirstTurn)

\* The Turn opens a conversation, or continues one whose first Turn
\* ("a", answered "a") has ended: thread 1 holds that exchange and the client
\* holds its checkpoint id and its two messages.
InitContinued ==
  /\ memory = [id \in ThreadIds |->
                 IF id = 1 THEN <<HumanMessage(<<"a">>), AIMessage(<<"a">>, <<>>)>> ELSE <<>>]
  /\ nextId = 1
  /\ nextCall = 0
  /\ sv = [t \in Turns |-> SvIdle]
  /\ wire = [t \in Turns |-> <<>>]
  /\ messages = << [id |-> 1, content |-> WelcomeText, isUser |-> FALSE,
                    isLoading |-> FALSE, searchInfo |-> NoSearch],
                   UserMessage(2, <<"a">>),
                   [Placeholder(3) EXCEPT !.content = <<"a">>, !.isLoading = FALSE] >>
  /\ checkpointId = 1
  /\ cl = [t \in Turns |-> ClIdle]
  /\ nTurns = 0
  /\ codec = CodecIdle

InitPipeline == Init \/ InitContinued

SpecPipeline == InitPipeline /\ [][NextPipeline]_vars

\* One client conversation of up to MaxTurns Turns whose streams are open at
\* the same time; the model answers in plain text.
ConvFrags == {<<"a">>}

Next ==
  \/ \E text \in UserTexts : Submit(text)
  \/ \E text \in UserTexts : SubmitSetupFails(text)
  \/ \E t \in Turns : ServerStart(t)
  \/ \E t \in Turns : GraphInput(t)
  \/ \E t \in Turns, f \in ConvFrags : ModelStream(t, f)
  \/ \E t \in Turns : ModelEnd(t, <<>>)
  \/ \E t \in Turns : tools_router(t)
  \/ \E t \in Turns : ModelFails(t)
  \/ \E t \in Turns : SendEnd(t)
  \/ \E t \in Turns : Deliver(t)
  \/ \E t \in Turns : OnError(t)

Spec == Init /\ [][Next]_vars

\* The client's handlers of one Turn under every stream: the lines the
\* connection can carry, in any order, up to MaxEvents of them.
ErrorEvent(m) == [NoEvent EXCEPT !.type = "error", !.body = JsonDumpsString(m)]
SearchErrorEvent(m) == [NoEvent EXCEPT !.type = "search_error", !.body = JsonDumpsString(m)]

WireEvents ==
  { CheckpointEvent(1), EndEvent, ErrorEvent(<<"a">>), SearchErrorEvent(<<"a">>) }
  \cup { ContentEvent(f) : f \in Frags }
  \cup { SearchStartEvent(q) : q \in {<<"a">>, <<"n">>} }
  \cup { SearchResultsEvent(out.items) : out \in {o \in SearchOutputs : o.isList} }

Receive(t, ev) ==
  /\ cl[t].rd < MaxEvents
  /\ OnMessage(t, ev)

NextReducer ==
  \/ \E text \in UserTexts : SubmitFirst(text)
  \/ \E ev \in WireEvents : Receive(FirstTurn, ev)
  \/ OnError(FirstTurn)

SpecReducer == InitPipeline /\ [][NextReducer]_vars

\* The client's handlers of one Turn with the lines kept as they arrive: the
\* connection hands over one line at a time, well-formed or not, of a type
\* the handlers name or not.
UnknownEvent == [NoEvent EXCEPT !.type = "ping"]

InboxEvents ==
  { ContentEvent(<<"a">>), ContentEvent(<<"SQ">>), SearchStartEvent(<<"a">>),
    SearchResultsEvent(<< [hasUrl |-> TRUE, url |-> U1] >>),
    ErrorEvent(<<"a">>), SearchErrorEvent(<<"a">>), UnknownEvent, EndEvent }

Arrive(t, ev) ==
  /\ cl[t].es = "open"
  /\ Len(wire[t]) = cl[t].rd
  /\ Len(wire[t]) < MaxEvents
  /\ wire' = Emit(t, ev)
  /\ UNCHANGED <<memory, nextId, nextCall, sv, clientVars, codec>>

NextInbox ==
  \/ \E text \in UserTexts : SubmitFirst(text)
  \/ \E ev \in InboxEvents : Arrive(FirstTurn, ev)
  \/ Deliver(FirstTurn)
  \/ OnError(FirstTurn)

SpecInbox == InitPipeline /\ [][NextInbox]_vars

\* The handlers of one Turn under search_results lines whose "urls" member is
\* a string: a text that is no JSON, an array cut short, an array of one url,
\* a number, a string literal.
SearchResultsStringEvent(text) ==
  [NoEvent EXCEPT !.type = "search_results", !.urlsIsString = TRUE,
                  !.urlsBody = JsonDumpsString(text)]

\* a, ["a   (no JSON)
InvalidJsonTexts == { <<"a">>, <<"LB", "DQ", "a", "DQ">> }

\* ["a"]
ListTexts == { <<"LB", "DQ", "a", "DQ", "RB">> }

\* 1, "a"   (JSON, but no list)
ScalarTexts == { <<"1">>, <<"DQ", "a", "DQ">> }

UrlStrings == InvalidJsonTexts \cup ListTexts \cup ScalarTexts

UrlStringEvents ==
  { ContentEvent(<<"a">>), SearchStartEvent(<<"a">>), EndEvent }
  \cup { SearchResultsStringEvent(text) : text \in UrlStrings }

NextUrlStrings ==
  \/ \E text \in UserTexts : SubmitFirst(text)
  \/ \E ev \in UrlStringEvents : Arrive(FirstTurn, ev)
  \/ Deliver(FirstTurn)
  \/ OnError(FirstTurn)

SpecUrlStrings == InitPipeline /\ [][NextUrlStrings]_vars

\* The server alone under every client of /chat_stream: requests arrive with
\* no checkpoint_id, with one the server has drawn, or with one it never drew;
\* up to MaxTurns runs of generate_chat_responses are in progress at once.
ForeignId == MaxTurns + 1

StoreKeys == ThreadIds \cup {ForeignId}

ServerFrags == {<<"a">>}

ServerToolCalls ==
  { <<>>,
    <<[name |-> SearchTool, query |-> <<"a">>]>>,
    <<[name |-> OtherTool, query |-> <<"a">>]>> }

InitServer ==
  /\ memory = [id \in StoreKeys |-> <<>>]
  /\ nextId = 0
  /\ nextCall = 0
  /\ sv = [t \in Turns |-> SvIdle]
  /\ wire = [t \in Turns |-> <<>>]
  /\ messages = <<>>
  /\ checkpointId = NoThread
  /\ cl = [t \in Turns |-> ClIdle]
  /\ nTurns = 0
  /\ codec = CodecIdle

\* GET /chat_stream/{message}?checkpoint_id=...: chat_stream hands message and
\* checkpoint_id to generate_chat_responses.
chat_stream(t, message, checkpoint_id) ==
  /\ checkpoint_id \in {NoThread, ForeignId} \cup (1..nextId)
  /\ sv[t].pc = "idle"
  /\ \A u \in 1..(t - 1) : sv[u].pc # "idle"
  /\ sv' = [sv EXCEPT ![t] = [SvIdle EXCEPT !.pc = "requested", !.text = message,
                                           !.reqCp = checkpoint_id]]
  /\ UNCHANGED <<memory, nextId, nextCall, wire, clientVars, codec>>

NextServer ==
  \/ \E t \in Turns, text \in UserTexts, cp \in {NoThread} \cup StoreKeys :
       chat_stream(t, text, cp)
  \/ \E t \in Turns : ServerStart(t)
  \/ \E t \in Turns : GraphInput(t)
  \/ \E t \in Turns, f \in ServerFrags : ModelStream(t, f)
  \/ \E t \in Turns, cs \in ServerToolCalls : ModelEnd(t, cs)
  \/ \E t \in Turns : tools_router(t)
  \/ \E t \in Turns, out \in SearchOutputs : ToolCallStep(t, out)
  \/ \E t \in Turns : ToolNodeReturn(t)
  \/ \E t \in Turns : ModelFails(t)
  \/ \E t \in Turns : SearchFails(t)
  \/ \E t \in Turns : SendEnd(t)

SpecServer == InitServer /\ [][NextServer]_vars

\* One run of generate_chat_responses whose adapters never fail, scheduled
\* fairly: the event loop resumes the generator whenever a step of it can be
\* taken, and every call of the model and of the search returns.
NextEngine ==
  \/ \E text \in UserTexts, cp \in {NoThread} \cup StoreKeys :
       chat_stream(FirstTurn, text, cp)
  \/ ServerStart(FirstTurn)
  \/ GraphInput(FirstTurn)
  \/ \E f \in Frags : ModelStream(FirstTurn, f)
  \/ \E cs \in ToolCallLists : ModelEnd(FirstTurn, cs)
  \/ tools_router(FirstTurn)
  \/ \E out \in SearchOutputs : ToolCallStep(FirstTurn, out)
  \/ ToolNodeReturn(FirstTurn)
  \/ SendEnd(FirstTurn)

SpecEngineFair ==
  /\ InitServer
  /\ [][NextEngine]_vars
  /\ WF_vars(ServerStart(FirstTurn))
  /\ WF_vars(GraphInput(FirstTurn))
  /\ WF_vars(\E cs \in ToolCallLists : ModelEnd(FirstTurn, cs))
  /\ WF_vars(tools_router(FirstTurn))
  /\ WF_vars(\E out \in SearchOutputs : ToolCallStep(FirstTurn, out))
  /\ WF_vars(ToolNodeReturn(FirstTurn))
  /\ WF_vars(SendEnd(FirstTurn))

\* One text of up to MaxLen characters, as a content fragment or as a search
\* query, taken through the server's line and the client's JSON.parse.
InitCodec ==
  /\ InitSystem
  /\ codec \in {[CodecIdle EXCEPT !.pc = "input", !.text = text] : text \in Texts(MaxLen)}

\* yield f"data: {{\"type\": \"content\", \"content\": \"{safe_content}\"}}\n\n"
YieldContent ==
  /\ codec.pc = "input"
  /\ codec' = [codec EXCEPT !.pc = "sent", !.event = ContentEvent(codec.text)]
  /\ UNCHANGED <<serverVars, clientVars>>

\* yield f"data: {{\"type\": \"search_start\", \"query\": \"{safe_query}\"}}\n\n"
YieldSearchStart ==
  /\ codec.pc = "input"
  /\ codec' = [codec EXCEPT !.pc = "sent", !.event = SearchStartEvent(codec.text)]
  /\ UNCHANGED <<serverVars, clientVars>>

\* const data = JSON.parse(event.data), inside try / catch
ParseLine ==
  /\ codec.pc = "sent"
  /\ codec' = [codec EXCEPT !.pc = "parsed", !.data = ParseEvent(codec.event)]
  /\ UNCHANGED <<serverVars, clientVars>>

NextCodec == YieldContent \/ YieldSearchStart \/ ParseLine

SpecCodec == InitCodec /\ [][NextCodec]_vars

\* One search output of up to MaxLen result items taken through on_tool_end,
\* the client's JSON.parse and the search_results handler.
ResultItems ==
  { [hasUrl |-> TRUE, url |-> <<c>>] : c \in {"a", "DQ", "BS", "SQ"} }
  \cup { [hasUrl |-> FALSE, url |-> <<>>] }

RECURSIVE ItemLists(_)
ItemLists(n) ==
  IF n = 0 THEN {<<>>}
  ELSE LET shorter == ItemLists(n - 1)
       IN  shorter \cup {Append(s, it) : s \in {x \in shorter : Len(x) = n - 1},
                                          it \in ResultItems}

InitUrls ==
  /\ InitSystem
  /\ codec \in {[pc |-> "input", text |-> <<>>, event |-> NoEvent,
                 data |-> ParseEvent(NoEvent), items |-> its, info |-> NoSearch] :
                its \in ItemLists(MaxLen)}

\* yield f"data: {{\"type\": \"search_results\", \"urls\": {urls_json}}}\n\n"
YieldSearchResults ==
  /\ codec.pc = "input"
  /\ codec' = [codec EXCEPT !.pc = "sent", !.event = SearchResultsEvent(codec.items)]
  /\ UNCHANGED <<serverVars, clientVars>>

\* else if (data.type === 'search_results') { ... searchData = newSearchInfo }
HandleSearchResults ==
  /\ codec.pc = "parsed"
  /\ codec' = [codec EXCEPT !.pc = "handled",
                            !.info = IF codec.data.ok
                                     THEN SearchResultsInfo(codec.info, codec.data.urls)
                                     ELSE codec.info]
  /\ UNCHANGED <<serverVars, clientVars>>

NextUrls == YieldSearchResults \/ ParseLine \/ HandleSearchResults

SpecUrls == InitUrls /\ [][NextUrls]_vars

\* ------------------------------------------------------------ properties
CountType(w, ty) == Cardinality({i \in 1..Len(w) : w[i].type = ty})

IsPrefix(a, b) == Len(a) <= Len(b) /\ SubSeq(b, 1, Len(a)) = a

ServerStarted(t) == sv[t].pc \notin {"idle", "requested"}

ServerFinished(t) == sv[t].pc \in {"closed", "aborted"}

\* The assistant messages the handlers of Turn t update (msg.id === aiResponseId).
AiMessages(t) ==
  {messages[i] : i \in {j \in 1..Len(messages) : messages[j].id = cl[t].aiResponseId}}

ClientStarted(t) == cl[t].es \in {"open", "closed"}

\* C1: a Turn's stream holds at most one checkpoint event: exactly one once
\* the server has started a Turn whose request carried no checkpoint_id, and
\* none for a Turn whose request carried one.
C1_CheckpointOncePerNewThread ==
  \A t \in Turns :
    /\ CountType(wire[t], "checkpoint") <= 1
    /\ ServerStarted(t) /\ sv[t].reqCp = NoThread => CountType(wire[t], "checkpoint") = 1
    /\ ServerStarted(t) /\ sv[t].reqCp # NoThread => CountType(wire[t], "checkpoint") = 0
    /\ ~ServerStarted(t) => wire[t] = <<>>

C1_Witness ==
  /\ sv[FirstTurn].pc = "closed"
  /\ sv[FirstTurn].reqCp # NoThread
  /\ CountType(wire[FirstTurn], "content") > 0
  /\ CountType(wire[FirstTurn], "checkpoint") = 0

\* C2: when a Turn's stream is over, it holds exactly one end event and that
\* event is its last; at no time does an event follow an end event.
C2_EndOnceAndLast ==
  \A t \in Turns :
    /\ \A i \in 1..Len(wire[t]) : wire[t][i].type = "end" => i = Len(wire[t])
    /\ ServerFinished(t) =>
         /\ CountType(wire[t], "end") = 1
         /\ wire[t][Len(wire[t])].type = "end"

\* C3: a Turn aborted by a failure of the model or search adapter has error
\* and end as the last two events of its stream.
C3_FailureEmitsErrorThenEnd ==
  \A t \in Turns :
    sv[t].pc = "aborted" =>
      /\ Len(wire[t]) >= 2
      /\ wire[t][Len(wire[t]) - 1].type = "error"
      /\ wire[t][Len(wire[t])].type = "end"

\* C4: the line yielded for a text (content fragment or search query) is
\* parsed by the client into an event carrying that very text.
C4_RoundTrip ==
  codec.pc = "parsed" => codec.data.ok /\ codec.data.text = codec.text

\* C5: the text accumulated by the handlers of a Turn is the concatenation,
\* in order, of the fragments of the content events processed so far, and so
\* is the content of the Turn's assistant message (as long as the connection
\* has not failed with nothing accumulated, the case of C6 and C7).
C5_AccumulatedIsConcatenation ==
  \A t \in Turns :
    ClientStarted(t) =>
      /\ cl[t].streamedContent = Concat(cl[t].frags)
      /\ ~(cl[t].errored /\ cl[t].streamedContent = <<>>) =>
           \A m \in AiMessages(t) : m.content = Concat(cl[t].frags)

C5_Witness ==
  /\ Len(cl[FirstTurn].frags) >= 3
  /\ <<>> \in {cl[FirstTurn].frags[i] : i \in 1..Len(cl[FirstTurn].frags)}
  /\ cl[FirstTurn].streamedContent = <<"a", "a">>
  /\ cl[FirstTurn].searchData.present
  /\ \E m \in AiMessages(FirstTurn) : m.content = <<"a", "a">>

\* C6: after a connection failure of a Turn for which at least one content
\* event was processed, the assistant message shows the accumulated text.
C6_PartialTextKept ==
  \A t \in Turns :
    cl[t].errored /\ cl[t].hasReceivedContent =>
      \A m \in AiMessages(t) : m.content = cl[t].streamedContent

\* C7: after a connection failure of a Turn for which no content event was
\* processed, the stream is closed and the assistant message shows the
\* failure text and is not loading.
C7_FailureTextWithoutContent ==
  \A t \in Turns :
    cl[t].errored /\ ~cl[t].hasReceivedContent =>
      /\ cl[t].es = "closed"
      /\ AiMessages(t) # {}
      /\ \A m \in AiMessages(t) : m.content = StreamErrorText /\ ~m.isLoading

C7_Witness ==
  /\ cl[FirstTurn].errored
  /\ ~cl[FirstTurn].hasReceivedContent
  /\ cl[FirstTurn].rd >= 2
  /\ cl[FirstTurn].searchData.present
  /\ \E m \in AiMessages(FirstTurn) : m.content = StreamErrorText

\* C8: in one client conversation the server draws one thread id, and every
\* request after the first carries it.
C8_OneThreadPerConversation ==
  /\ nextId <= 1
  /\ \A t \in Turns : t > 1 /\ sv[t].pc # "idle" => sv[t].reqCp = 1

StagesOrdered(stages, endSeen) ==
  /\ \A i \in 1..Len(stages) :
       stages[i] = "reading" => \E j \in 1..(i - 1) : stages[j] = "searching"
  /\ (\E i \in 1..Len(stages) : stages[i] = "writing") => endSeen

\* C9: while the client consumes the stream the server produces, reading is
\* in the stage list only after searching, and writing only once end has
\* been processed.
C9_StageOrder ==
  \A t \in Turns :
    /\ StagesOrdered(cl[t].searchData.stages, cl[t].endSeen)
    /\ ClientStarted(t) =>
         \A m \in AiMessages(t) : StagesOrdered(m.searchInfo.stages, cl[t].endSeen)

\* C10: every step leaves the stage list of a Turn (the handlers' searchData
\* and the assistant message's searchInfo) an extension of what it was.
C10_StagesAppendOnly ==
  [][\A t \in Turns :
       ClientStarted(t) =>
         /\ IsPrefix(cl[t].searchData.stages, cl[t].searchData.stages')
         /\ \A m \in AiMessages(t) : \A n \in AiMessages(t)' :
              IsPrefix(m.searchInfo.stages, n.searchInfo.stages)]_vars

\* The Messages a Turn has put on its Thread after its own user Message.
LastUserIndex(msgs) ==
  CHOOSE i \in 1..Len(msgs) :
    msgs[i].role = "user" /\ \A j \in (i + 1)..Len(msgs) : msgs[j].role # "user"

TurnMessages(t) ==
  SubSeq(sv[t].local, LastUserIndex(sv[t].local) + 1, Len(sv[t].local))

\* The Turn has ended after: a model response with one search call, the
\* search returning a list, a model response without tool calls.
SearchThenAnswer(t) ==
  /\ sv[t].pc = "closed"
  /\ LET tm == TurnMessages(t)
     IN  /\ Len(tm) = 3
         /\ tm[1].role = "assistant" /\ Len(tm[1].toolCalls) = 1
         /\ tm[1].toolCalls[1].name = SearchTool
         /\ tm[2].role = "tool" /\ tm[2].content = <<"results">>
         /\ tm[3].role = "assistant" /\ tm[3].toolCalls = <<>>

\* C11: for a Turn in which the model requests one search, the search
\* succeeds and the model then answers, the stream is (after the checkpoint,
\* if any) content events, search_start with the query, search_results,
\* content events, end; and once the client has processed end, the stage list
\* of the Turn's assistant message is exactly searching, reading, writing.
C11_SearchTurnOrder ==
  \A t \in Turns :
    SearchThenAnswer(t) =>
      LET w == wire[t]
          n == Len(w)
          query == TurnMessages(t)[1].toolCalls[1].query
          final == <<"searching", "reading", "writing">>
      IN  /\ \E s \in 1..n :
               /\ s + 1 < n
               /\ w[s].type = "search_start" /\ w[s].raw = query
               /\ w[s + 1].type = "search_results"
               /\ w[n].type = "end"
               /\ \A i \in (1..n) \ {s, s + 1, n} :
                    w[i].type = "content" \/ (i = 1 /\ w[i].type = "checkpoint")
          /\ cl[t].endSeen =>
               /\ AiMessages(t) # {}
               /\ \A m \in AiMessages(t) : m.searchInfo.stages = final

\* C12: once the client has processed end for a Turn without any content
\* event, the Turn's assistant message is not loading and its body is the
\* stand-in text.
C12_EndWithoutContentFinalized ==
  \A t \in Turns :
    cl[t].endSeen /\ ~cl[t].hasReceivedContent =>
      /\ AiMessages(t) # {}
      /\ \A m \in AiMessages(t) : ~m.isLoading /\ RenderBody(m) = WaitingText

AssistantMessages == {messages[i] : i \in {j \in 1..Len(messages) : ~messages[j].isUser}}

Consumes(t) == cl[t].rd' = cl[t].rd + 1

NextLine(t) == wire[t][cl[t].rd + 1]

Malformed(ev) ==
  \/ ~JsonParseString(ev.body).ok
  \/ ~JsonParseString(ev.urlsBody).ok
  \/ \E i \in 1..Len(ev.urls) : ~JsonParseString(ev.urls[i]).ok

\* The handlers' state of Turn t, the thread id and the message list are what
\* they were, and the stream is open.
EventSkipped(t) ==
  /\ cl' = [cl EXCEPT ![t].rd = @ + 1]
  /\ messages' = messages
  /\ checkpointId' = checkpointId
  /\ cl[t].es' = "open"

\* C14: a line that cannot be parsed is skipped: processing it leaves the
\* accumulated text, the stage record, the thread id and the message list
\* unchanged and the stream open, so the lines after it are processed from
\* the state the line before it left.
C14_MalformedSkipped ==
  [][\A t \in Turns : Consumes(t) /\ Malformed(NextLine(t)) => EventSkipped(t)]_vars

C14_Witness ==
  /\ cl[FirstTurn].rd = 3
  /\ wire[FirstTurn][1] = ContentEvent(<<"a">>)
  /\ Malformed(wire[FirstTurn][2])
  /\ wire[FirstTurn][3] = ContentEvent(<<"a">>)
  /\ cl[FirstTurn].streamedContent = <<"a", "a">>
  /\ cl[FirstTurn].es = "open"

\* The types onmessage dispatches on.
HandledTypes ==
  {"checkpoint", "content", "search_start", "search_results", "search_error", "end"}

\* C15: a line whose type is none of those the handlers name is ignored:
\* processing it changes no client state and leaves the stream open.
C15_UnknownTypeIgnored ==
  [][\A t \in Turns :
       Consumes(t) /\ NextLine(t).type \notin HandledTypes => EventSkipped(t)]_vars

C15_Witness ==
  /\ cl[FirstTurn].rd = 3
  /\ wire[FirstTurn][1] = SearchStartEvent(<<"a">>)
  /\ wire[FirstTurn][2] = UnknownEvent
  /\ wire[FirstTurn][3] = ContentEvent(<<"a">>)
  /\ cl[FirstTurn].searchData.stages = <<"searching">>
  /\ cl[FirstTurn].streamedContent = <<"a">>
  /\ cl[FirstTurn].es = "open"

\* C16: processing an error event with message m appends error to the stage
\* list and makes m the error text of the stage record; query and urls stay.
C16_ErrorEventRecorded ==
  [][\A t \in Turns :
       Consumes(t) /\ NextLine(t).type = "error" /\ ~Malformed(NextLine(t)) =>
         /\ cl[t].searchData.stages' = Append(cl[t].searchData.stages, "error")
         /\ cl[t].searchData.error' = JsonParseString(NextLine(t).body).val
         /\ cl[t].searchData.query' = cl[t].searchData.query
         /\ cl[t].searchData.urls' = cl[t].searchData.urls]_vars

\* C17: when a Turn is aborted by an adapter failure while text of the
\* current model response has been streamed, the Thread ends with an
\* assistant Message holding that text.
C17_PartialAnswerAppended ==
  \A t \in Turns :
    sv[t].pc = "aborted" /\ sv[t].acc # <<>> =>
      LET thread == memory[sv[t].tid]
      IN  /\ thread # <<>>
          /\ thread[Len(thread)].role = "assistant"
          /\ thread[Len(thread)].content = sv[t].acc

\* C18: every step leaves the Message sequence of every Thread an extension
\* of what it was.
C18_ThreadAppendOnly ==
  [][\A id \in ThreadIds : IsPrefix(memory[id], memory'[id])]_vars

\* The Messages on the Thread before Turn t: none for a new conversation, the
\* exchange of the earlier Turn for a continued one.
EarlierMessages(t) ==
  IF sv[t].reqCp = NoThread THEN <<>>
  ELSE <<HumanMessage(<<"a">>), AIMessage(<<"a">>, <<>>)>>

\* C19: whenever the model is invoked in a Turn, the state it is given is the
\* whole Thread: the Messages of the earlier Turns, then the Turn's user
\* Message, then the assistant and tool Messages the Turn has appended.
C19_ModelGivenFullHistory ==
  \A t \in Turns :
    sv[t].pc = "ModelPending" =>
      LET given == sv[t].local
          k == Len(EarlierMessages(t))
      IN  /\ given = memory[sv[t].tid]
          /\ IsPrefix(EarlierMessages(t) \o <<HumanMessage(sv[t].text)>>, given)
          /\ \A i \in (k + 2)..Len(given) : given[i].role \in {"assistant", "tool"}

C19_Witness ==
  /\ sv[FirstTurn].pc = "ModelPending"
  /\ sv[FirstTurn].reqCp # NoThread
  /\ Len(sv[FirstTurn].local) = 5
  /\ sv[FirstTurn].local[5].role = "tool"

\* The engine's state of a Turn (closed: Done, the end event sent).
Engine(t) == IF sv[t].pc = "closed" THEN "Done" ELSE sv[t].pc

LastMessage(t) == sv[t].local[Len(sv[t].local)]

\* C20: the engine moves from ModelPending to Routing, from Routing to
\* ToolPending exactly when the last Message carries a tool call and to Done
\* otherwise, from ToolPending back to ModelPending (a failure of an adapter
\* aborts ModelPending or ToolPending); it never leaves Done, and in Done the
\* Thread ends with an assistant Message without tool calls.
C20_EngineTransitions ==
  /\ [](\A t \in Turns :
          Engine(t) = "Done" =>
            /\ LastMessage(t).role = "assistant"
            /\ LastMessage(t).toolCalls = <<>>
            /\ memory[sv[t].tid] = sv[t].local)
  /\ [][\A t \in Turns :
          Engine(t)' # Engine(t) =>
            CASE Engine(t) = "ModelPending" -> Engine(t)' \in {"Routing", "aborted"}
              [] Engine(t) = "Routing" ->
                   Engine(t)' = IF Len(LastMessage(t).toolCalls) >= 1
                                THEN "ToolPending" ELSE "Done"
              [] Engine(t) = "ToolPending" -> Engine(t)' \in {"ModelPending", "aborted"}
              [] Engine(t) \in {"Done", "aborted"} -> FALSE
              [] OTHER -> TRUE]_vars

C20_Witness ==
  /\ Engine(FirstTurn) = "Done"
  /\ \E i \in 1..Len(sv[FirstTurn].local) : sv[FirstTurn].local[i].role = "tool"
  /\ \E i \in 1..Len(wire[FirstTurn]) : wire[FirstTurn][i].type = "search_results"

ToolIdsMatched(thread) ==
  /\ \A i, j \in 1..Len(thread) :
       thread[i].role = "tool" /\ thread[j].role = "tool" /\ i # j =>
         thread[i].toolCallId # thread[j].toolCallId
  /\ \A i \in 1..Len(thread) :
       thread[i].role = "tool" =>
         \E j \in 1..(i - 1) :
           /\ thread[j].role = "assistant"
           /\ \E k \in 1..Len(thread[j].toolCalls) :
                thread[j].toolCalls[k].id = thread[i].toolCallId

C23_ThreadIdsServerMinted ==
  \A id \in DOMAIN memory :
    memory[id] # <<>> =>
      /\ id \in 1..nextId
      /\ \E t \in Turns : \E i \in 1..Len(wire[t]) : wire[t][i] = CheckpointEvent(id)

\* No other Turn runs, or has run, on the thread of Turn t.
AloneOnThread(t) ==
  \A u \in Turns \ {t} : ServerStarted(u) => sv[u].tid # sv[t].tid

\* C24: Turns on distinct thread ids do not touch each other: a step of one
\* Turn leaves the run, the stream and the Thread of every Turn on another
\* thread id as they were, a stream grows only by steps of its own Turn, and
\* the Thread of a Turn that is alone on its thread id is the message list of
\* that Turn's own run.
C24_DistinctThreadsIndependent ==
  /\ [](\A t \in Turns :
          ServerStarted(t) /\ sv[t].pc # "started" /\ AloneOnThread(t) =>
            memory[sv[t].tid] = sv[t].local)
  /\ [][\A t \in Turns :
          /\ wire'[t] # wire[t] => sv'[t] # sv[t]
          /\ sv'[t] # sv[t] =>
               \A u \in Turns \ {t} :
                 ServerStarted(u) /\ sv'[t].tid # sv[u].tid =>
                   /\ sv'[u] = sv[u]
                   /\ wire'[u] = wire[u]
                   /\ memory'[sv[u].tid] = memory[sv[u].tid]]_vars

C24_Witness ==
  \E t, u \in Turns :
    /\ sv[t].pc = "closed" /\ sv[u].pc = "closed"
    /\ sv[t].tid # sv[u].tid
    /\ \E i \in 1..Len(memory[sv[t].tid]) : memory[sv[t].tid][i].role = "tool"
    /\ Len(memory[sv[u].tid]) = 2
    /\ CountType(wire[u], "content") > 0

\* The run of Turn t has started and has neither ended nor been aborted.
InFlight(t) == ServerStarted(t) /\ ~ServerFinished(t)

\* C25: no two Turns are in flight on the same thread id.
C25_OneTurnPerThreadInFlight ==
  \A t, u \in Turns :
    t # u /\ InFlight(t) /\ InFlight(u) => sv[t].tid # sv[u].tid

\* C26: the content events of a Turn are the model's fragments, one by one:
\* the step in which the model yields a fragment appends one content event
\* carrying that fragment to the stream, no other step adds a content event,
\* and events already in the stream stay where they are.
C26_ContentEventsAreFragments ==
  /\ [](\A t \in Turns : CountType(wire[t], "content") = sv[t].nfrags)
  /\ [][\A t \in Turns :
          /\ IsPrefix(wire[t], wire'[t])
          /\ sv'[t].nfrags = sv[t].nfrags + 1 =>
               /\ Len(wire'[t]) = Len(wire[t]) + 1
               /\ wire'[t][Len(wire'[t])].type = "content"
               /\ sv'[t].acc = sv[t].acc \o wire'[t][Len(wire'[t])].raw
               /\ wire'[t][Len(wire'[t])].body = EscapeContent(wire'[t][Len(wire'[t])].raw)
          /\ sv'[t].nfrags = sv[t].nfrags /\ ServerStarted(t) =>
               CountType(wire'[t], "content") = CountType(wire[t], "content")]_vars

C26_Witness ==
  /\ sv[FirstTurn].nfrags = 2
  /\ wire[FirstTurn][Len(wire[FirstTurn]) - 1] = ContentEvent(<<>>)
  /\ wire[FirstTurn][Len(wire[FirstTurn])] = ContentEvent(<<"a">>)
  /\ sv[FirstTurn].rounds = 1
  /\ sv[FirstTurn].pc = "ModelPending"

\* The url fields of the items that have one, in the items' order.
UrlFields(items) ==
  LET withUrl == SelectSeq(items, LAMBDA it : it.hasUrl)
  IN  [i \in 1..Len(withUrl) |-> withUrl[i].url]

\* C27: the urls on the search_results line, and the urls of the client's
\* stage record after the line is processed, are the url fields of the
\* search's result items in the order the search returned them.
C27_UrlsPreserved ==
  /\ codec.pc \in {"sent", "parsed", "handled"} =>
       /\ codec.event.type = "search_results"
       /\ Len(codec.event.urls) = Len(UrlFields(codec.items))
       /\ \A i \in 1..Len(codec.event.urls) :
            JsonParseString(codec.event.urls[i]) = [ok |-> TRUE, val |-> UrlFields(codec.items)[i]]
  /\ codec.pc = "handled" =>
       /\ codec.info.present
       /\ codec.info.urls = UrlFields(codec.items)
       /\ codec.info.stages = <<"reading">>

C27_Witness ==
  /\ codec.pc = "handled"
  /\ Len(codec.items) = 2
  /\ ~codec.items[1].hasUrl
  /\ codec.info.urls = << <<"DQ">> >>

\* C28: in a Turn's stream the checkpoint event, if any, is the first event;
\* every search_results event follows a search_start event with nothing but
\* search_results events of the same tool round in between; and a
\* search_results event is emitted only while the tool round runs, after the
\* model response that asked for the search has ended.
C28_CausalOrder ==
  /\ [](\A t \in Turns : \A i \in 1..Len(wire[t]) :
          /\ wire[t][i].type = "checkpoint" => i = 1
          /\ wire[t][i].type = "search_results" =>
               \E j \in 1..(i - 1) :
                 /\ wire[t][j].type = "search_start"
                 /\ \A k \in (j + 1)..(i - 1) : wire[t][k].type = "search_results")
  /\ [][\A t \in Turns :
          CountType(wire'[t], "search_results") > CountType(wire[t], "search_results") =>
            /\ sv[t].pc = "ToolPending"
            /\ LastMessage(t).role = "assistant"
            /\ SearchCalls(LastMessage(t).toolCalls) # <<>>]_vars

C28_Witness ==
  /\ Len(wire[FirstTurn]) >= 4
  /\ wire[FirstTurn][1].type = "checkpoint"
  /\ wire[FirstTurn][2].type = "search_start"
  /\ wire[FirstTurn][3].type = "search_results"
  /\ wire[FirstTurn][4].type = "search_results"

\* C29: when the EventSource of a Turn could not be created, an assistant
\* message shows the connection text, which is not the text of a failure
\* within a Turn, and no assistant message of the Turn is loading.
C29_SetupFailureShown ==
  \A t \in Turns :
    cl[t].es = "failed" =>
      /\ \E m \in AssistantMessages : m.content = SetupErrorText /\ ~m.isLoading
      /\ SetupErrorText # StreamErrorText
      /\ \A m \in AiMessages(t) : ~m.isLoading

\* The tool calls of the assistant Message at position i of a message list
\* are answered, in their order, by the tool Messages that follow it.
CallsAnswered(msgs, i) ==
  LET calls == msgs[i].toolCalls
  IN  /\ i + Len(calls) <= Len(msgs)
      /\ \A k \in 1..Len(calls) :
           /\ msgs[i + k].role = "tool"
           /\ msgs[i + k].toolCallId = calls[k].id
      /\ i + Len(calls) < Len(msgs) => msgs[i + Len(calls) + 1].role # "tool"

\* C30: whenever the model is invoked, every tool call of every assistant
\* Message it is given has been answered by exactly one tool Message with the
\* call's id, in the calls' order, whatever the name of the tool.
C30_EveryToolCallAnswered ==
  \A t \in Turns :
    sv[t].pc = "ModelPending" =>
      \A i \in 1..Len(sv[t].local) :
        sv[t].local[i].role = "assistant" => CallsAnswered(sv[t].local, i)

\* C31: when a model response carries k >= 1 search calls, the last k events
\* of the stream are search_start events, one per call, in the calls' order,
\* each with the query of its call.
C31_SearchStartPerCall ==
  \A t \in Turns :
    sv[t].pc = "Routing" =>
      LET calls == SearchCalls(LastMessage(t).toolCalls)
          k == Len(calls)
          w == wire[t]
      IN  k >= 1 =>
            /\ Len(w) >= k
            /\ \A i \in 1..k :
                 /\ w[Len(w) - k + i].type = "search_start"
                 /\ w[Len(w) - k + i].raw = calls[i].query

\* The tool Messages a Turn has appended to its Thread.
ToolMessagesAppended(t) ==
  Cardinality({i \in 1..Len(TurnMessages(t)) : TurnMessages(t)[i].role = "tool"})

\* C32: every search invocation whose result has been appended to the Thread
\* as a tool Message has put one search_results event on the stream, whatever
\* the tool returned: the stream holds at least as many search_results events
\* as the Turn has appended tool Messages, and no more than the invocations
\* that have completed.
C32_ResultsEventPerInvocation ==
  \A t \in Turns :
    sv[t].local # <<>> =>
      /\ ToolMessagesAppended(t) <= CountType(wire[t], "search_results")
      /\ CountType(wire[t], "search_results")
           <= ToolMessagesAppended(t) + Len(sv[t].toolMsgs)

\* C33: all messages of the client's list have pairwise distinct ids.
C33_MessageIdsDistinct ==
  \A i, j \in 1..Len(messages) : messages[i].id = messages[j].id => i = j

\* The step is a handler of Turn t's stream (onmessage or onerror).
StreamStep(t) == cl[t].es = "open" /\ cl[t]' # cl[t]

\* C34: a handler of a Turn's stream changes at most one message of the list,
\* and only one whose id is the Turn's aiResponseId; every other message, the
\* messages of the other Turns included, stays as it is, and the list keeps
\* its length.
C34_OnlyOwnMessageChanges ==
  [][\A t \in Turns :
       StreamStep(t) =>
         /\ Len(messages') = Len(messages)
         /\ \A i \in 1..Len(messages) :
              messages[i].id # cl[t].aiResponseId => messages'[i] = messages[i]
         /\ Cardinality({i \in 1..Len(messages) : messages'[i] # messages[i]}) <= 1]_vars

\* Two Turns have their streams open and each has shown a fragment.
C34_Witness ==
  /\ \A t \in Turns : cl[t].es = "open" /\ cl[t].streamedContent = <<"a">>
  /\ \A t \in Turns : \A m \in AiMessages(t) : m.content = <<"a">>

Occurrences(s, x) == Cardinality({i \in 1..Len(s) : s[i] = x})

\* C35: processing search_start with query q leaves a stage record in which
\* "searching" occurs exactly once and whose query is q, and the urls and the
\* error recorded earlier in the Turn are what they were.
C35_SearchStartKeepsUrlsAndError ==
  [][\A t \in Turns :
       (Consumes(t) /\ NextLine(t).type = "search_start" /\ ~Malformed(NextLine(t))) =>
         LET before == cl[t].searchData
             after == cl[t].searchData'
         IN  /\ after.query = JsonParseString(NextLine(t).body).val
             /\ Occurrences(after.stages, "searching") = 1
             /\ after.urls = before.urls
             /\ after.error = before.error]_vars

\* The next line of Turn t's stream is a well-formed search_results event
\* whose urls member is a string.
UrlsStringLine(t) ==
  /\ NextLine(t).type = "search_results"
  /\ NextLine(t).urlsIsString
  /\ ~Malformed(NextLine(t))

\* The text of that string, as JSON.parse of the line gives it.
UrlsStringText(t) == JsonParseString(NextLine(t).urlsBody).val

\* C36, as the spec states it: a search_results event whose urls string does
\* not parse into a list is skipped: the handlers' state and the message list
\* stay as they are and the stream stays open.
C36_NoListSkipped ==
  [][\A t \in Turns :
       (Consumes(t) /\ UrlsStringLine(t) /\ UrlsStringText(t) \notin ListTexts)
         => EventSkipped(t)]_vars

\* C36, as the code has it: the event is skipped when the urls string is no
\* JSON at all; when it is JSON, "reading" is added to the stages and the
\* message takes the new stage record, whether the value is a list or not,
\* and a list of urls is recorded as it is.
C36_InvalidJsonSkipped ==
  [][\A t \in Turns :
       (Consumes(t) /\ UrlsStringLine(t)) =>
         IF UrlsStringText(t) \in InvalidJsonTexts THEN EventSkipped(t)
         ELSE /\ cl[t].searchData'.stages = AddStage(cl[t].searchData, "reading")
              /\ \A m \in AiMessages(t)' : m.searchInfo = cl[t].searchData'
              /\ UrlsStringText(t) \in ListTexts => cl[t].searchData'.urls = << <<"a">> >>]_vars

\* A urls string that is no JSON has been processed after a search_start, the
\* stage record is that of the search_start, and a later content event has
\* been processed.
C36_Witness ==
  \E t \in Turns :
    /\ cl[t].rd = 3
    /\ wire[t][1].type = "search_start"
    /\ wire[t][2].urlsIsString
    /\ JsonParseString(wire[t][2].urlsBody).val \in InvalidJsonTexts
    /\ wire[t][3].type = "content"
    /\ cl[t].searchData.stages = <<"searching">>
    /\ cl[t].streamedContent = <<"a">>

SearchProgressTypes == {"search_start", "search_results", "search_error"}

\* C37: a content event leaves the stage record and the message's search info
\* as they are; a search_start, search_results or search_error event leaves
\* the accumulated text as it is and the message showing exactly that text.
C37_TextAndSearchIndependent ==
  [][\A t \in Turns :
       (Consumes(t) /\ ~Malformed(NextLine(t))) =>
         /\ NextLine(t).type = "content" =>
              /\ cl[t].searchData' = cl[t].searchData
              /\ \A m \in AiMessages(t) : \A n \in AiMessages(t)' :
                   n.searchInfo = m.searchInfo
         /\ NextLine(t).type \in SearchProgressTypes =>
              /\ cl[t].streamedContent' = cl[t].streamedContent
              /\ \A n \in AiMessages(t)' : n.content = cl[t].streamedContent]_vars

\* The Turn has processed content, search_start, search_results and content
\* again: the message shows both fragments and both stages.
C37_Witness ==
  \E t \in Turns :
    /\ cl[t].rd = 4
    /\ wire[t][1].type = "content" /\ wire[t][2].type = "search_start"
    /\ wire[t][3].type = "search_results" /\ wire[t][4].type = "content"
    /\ cl[t].searchData.stages = <<"searching", "reading">>
    /\ Len(cl[t].streamedContent) = 2
    /\ \A m \in AiMessages(t) :
         m.content = cl[t].streamedContent /\ m.searchInfo = cl[t].searchData

\* The client has processed end or a transport error for Turn t.
StreamOver(t) == cl[t].endSeen \/ cl[t].errored

\* C38: once the client has processed end or a transport error for a Turn,
\* the Turn's stream is closed and stays closed, and the Turn's assistant
\* message keeps its content, loading flag and search info in every later
\* step, whatever the server sends and whatever the other Turns do.
C38_ClosedTurnIsFinal ==
  /\ [](\A t \in Turns : StreamOver(t) => cl[t].es = "closed")
  /\ [][\A t \in Turns :
          StreamOver(t) =>
            /\ cl[t]' = cl[t]
            /\ \A i \in 1..Len(messages) :
                 messages[i].id = cl[t].aiResponseId => messages'[i] = messages[i]]_vars

\* Turn 1 was closed by a transport error with lines of the server still
\* undelivered, and Turn 2 has shown a fragment on its open stream.
C38_Witness ==
  /\ cl[1].errored /\ cl[1].es = "closed"
  /\ Len(wire[1]) > cl[1].rd
  /\ cl[2].es = "open" /\ cl[2].streamedContent # <<>>

\* No line of one of the types has been processed by Turn t so far.
NoneProcessed(t, types) == \A i \in 1..cl[t].rd : wire[t][i].type \notin types

\* The step processes a well-formed search_results line.
ResultsStep(t) ==
  Consumes(t) /\ NextLine(t).type = "search_results" /\ ~Malformed(NextLine(t))

\* The step processes end right after a well-formed search_results line.
EndAfterResultsStep(t) ==
  /\ Consumes(t) /\ NextLine(t).type = "end"
  /\ cl[t].rd >= 1
  /\ wire[t][cl[t].rd].type = "search_results" /\ ~Malformed(wire[t][cl[t].rd])

ReadingOnly(t) ==
  /\ cl[t].searchData'.stages = <<"reading">>
  /\ cl[t].searchData'.query = <<>>
  /\ cl[t].searchData'.urls = ParseEvent(NextLine(t)).urls
  /\ \A m \in AiMessages(t)' : m.searchInfo = cl[t].searchData'

ReadingWriting(t) ==
  \A m \in AiMessages(t)' :
    /\ m.searchInfo.stages = <<"reading", "writing">>
    /\ m.searchInfo.query = <<>>
    /\ m.searchInfo.urls = ParseEvent(wire[t][cl[t].rd]).urls

\* C39, as the spec states it: when search_results is processed and no
\* search_start was processed before it in the Turn, the stage record becomes
\* stages = [reading] with an empty query and the event's urls, and an end
\* that follows makes the message's stages [reading, writing].
C39_ReadingWithoutSearchStart ==
  [][\A t \in Turns :
       /\ (ResultsStep(t) /\ NoneProcessed(t, {"search_start"})) => ReadingOnly(t)
       /\ (EndAfterResultsStep(t) /\ NoneProcessed(t, {"search_start"}))
            => ReadingWriting(t)]_vars

\* C39, as the code has it: the same outcome when search_results is the first
\* search event of the Turn (no search_start, search_results or search_error
\* was processed before it); after an earlier search_results or search_error
\* "reading" is appended to the stages recorded so far.
C39_ReadingAsFirstSearchEvent ==
  [][\A t \in Turns :
       /\ (ResultsStep(t) /\ NoneProcessed(t, SearchProgressTypes)) => ReadingOnly(t)
       /\ (EndAfterResultsStep(t)
             /\ \A i \in 1..(cl[t].rd - 1) : wire[t][i].type \notin SearchProgressTypes)
            => ReadingWriting(t)
       /\ (ResultsStep(t) /\ cl[t].searchData.present) =>
            cl[t].searchData'.stages = Append(cl[t].searchData.stages, "reading")]_vars

\* search_results came first and end followed: the message shows the stages
\* reading, writing with an empty query and the url of the event.
C39_Witness ==
  \E t \in Turns :
    /\ cl[t].rd = 2 /\ cl[t].endSeen
    /\ wire[t][1].type = "search_results" /\ wire[t][2].type = "end"
    /\ \A m \in AiMessages(t) :
         /\ m.searchInfo.stages = <<"reading", "writing">>
         /\ m.searchInfo.query = <<>>
         /\ m.searchInfo.urls = <<U1>>

====
